---- MODULE Spec2Model ----
(***************************************************************************)
(* The exoplanet store (stars, planets, discoveries), the CSV import that  *)
(* fills it, the staged k-means clustering that writes one cluster column  *)
(* per stage, and the radius ranking that the dashboard and the labelled   *)
(* scatterplots derive from the persisted cluster columns.                 *)
(***************************************************************************)
EXTENDS Integers, Sequences, FiniteSets, TLC

VARIABLES
    planets,      \* table planets: planet_id -> row
    stars,        \* table stars: star_id -> row
    discoveries,  \* table discoveries: planet_id -> row
    last_run,     \* stage, df['planet_id'], df[features] and df['cluster_label'] of the latest
                  \* run_clustering that fitted
    stage_stats,  \* return value of the most recent get_stage_stats call
    scatter,      \* cluster_stats / id_to_label of the most recent generate_labeled_scatter call
    main,         \* the __main__ block of 10_cluster_analysis.py: where it stands, what it
                  \* printed and kept, and the transaction its connection has open
    tap,          \* one call of query_nasa_tap of 01_data_collection.py: its max_retries,
                  \* the attempts made, the waits and how it ended
    export        \* main() of 06_execute_queries.py: its connection, the results it
                  \* has collected, the files written and the summary

vars == <<planets, stars, discoveries, last_run, stage_stats, scatter, main, tap, export>>

-----------------------------------------------------------------------------
(* Bounds of the model *)

NumPlanets == 11
RankRows == 4

(* Program constants *)

\* None / NaN / SQL NULL: the missing-value sentinel, distinct from every number
NULL == -1

\* run_clustering: if len(df) < 10: return None
MinRows == 10

StageNames == <<"Stage 1", "Stage 1c", "Stage 2", "Stage 2c">>

Stage1Feats == <<"pl_rade", "pl_orbper", "pl_eqt">>

Stage2Feats == <<"pl_masse", "pl_rade", "pl_orbper", "pl_eqt", "density">>

STAGES ==
    [s \in {StageNames[i] : i \in 1..Len(StageNames)} |->
        CASE s = "Stage 1"  -> [k |-> 3, col |-> "cluster_s1",  db_flag |-> "in_stage1",  feats |-> Stage1Feats]
          [] s = "Stage 1c" -> [k |-> 3, col |-> "cluster_s1c", db_flag |-> "in_stage1c", feats |-> Stage1Feats]
          [] s = "Stage 2"  -> [k |-> 4, col |-> "cluster_s2",  db_flag |-> "in_stage2",  feats |-> Stage2Feats]
          [] s = "Stage 2c" -> [k |-> 4, col |-> "cluster_s2c", db_flag |-> "in_stage2c", feats |-> Stage2Feats]]

Stages == DOMAIN STAGES

ClusterCols == {STAGES[s].col : s \in Stages}

AllFeats == {Stage2Feats[i] : i \in 1..Len(Stage2Feats)}

Range(s) == {s[i] : i \in 1..Len(s)}

RECURSIVE AscSeq(_)
\* the elements of a set of integers as an ascending sequence
AscSeq(S) ==
    IF S = {} THEN <<>>
    ELSE LET m == CHOOSE x \in S : \A y \in S : x <= y
         IN  <<m>> \o AscSeq(S \ {m})

Reverse(s) == [i \in 1..Len(s) |-> s[Len(s) + 1 - i]]

RECURSIVE SumSeq(_)
SumSeq(s) == IF s = <<>> THEN 0 ELSE s[1] + SumSeq(Tail(s))

-----------------------------------------------------------------------------
(* The cleaned CSV the import script loads *)

\* the physical attributes of a small and of a large planet
SmallPlanet == [pl_masse |-> 1, pl_rade |-> 1, pl_orbper |-> 1, pl_eqt |-> 1, density |-> 1]

LargePlanet == [pl_masse |-> 10, pl_rade |-> 10, pl_orbper |-> 10, pl_eqt |-> 10, density |-> 10]

\* what the CSV may hold for the first planet: complete, or with a missing attribute
FirstPlanetChoices ==
    { SmallPlanet,
      [SmallPlanet EXCEPT !.pl_rade = NULL],
      [SmallPlanet EXCEPT !.density = NULL] }

\* two planets per host star; a planet beyond the first NumPlanets has its own
HostOf(i) == IF i > NumPlanets THEN i ELSE (i + 1) \div 2

CsvRow(i, attrs) ==
    [pl_name |-> i, hostname |-> HostOf(i), sy_dist |-> 10 * HostOf(i),
     pl_masse |-> attrs.pl_masse, pl_rade |-> attrs.pl_rade, pl_orbper |-> attrs.pl_orbper,
     pl_eqt |-> attrs.pl_eqt, density |-> attrs.density,
     discoverymethod |-> IF i % 2 = 0 THEN "Transit" ELSE "Radial Velocity",
     disc_year |-> IF i % 3 = 0 THEN NULL ELSE 2000 + i]

\* the CSV with `first` as the attributes of planet 1; the other planets
\* alternate between large and small.  Its last planet, around a star of its
\* own, is one the store has not seen before the first import.
Csv(first) ==
    [i \in 1..(NumPlanets + 1) |->
        CsvRow(i, IF i = 1 THEN first ELSE IF i % 2 = 0 THEN LargePlanet ELSE SmallPlanet)]

-----------------------------------------------------------------------------
(* Stage 10: run_clustering *)

\* a variant without the WHERE clause: SELECT ... FROM planets
SelectUnflagged(store, stage) == DOMAIN store

\* SELECT ... FROM planets WHERE {db_flag} = TRUE
SelectFlagged(store, stage) ==
    {id \in DOMAIN store : store[id][STAGES[stage].db_flag] = TRUE}

\* .dropna(subset=features)
DropNa(store, ids, feats) ==
    {id \in ids : \A i \in 1..Len(feats) : store[id][feats[i]] # NULL}

\* the row orders in which the store may return a result set (no ORDER BY)
RowOrders(ids) == {AscSeq(ids), Reverse(AscSeq(ids))}

\* np.log10(x + 1e-6), in thousandths
Log10Milli(x) ==
    CASE x = 0  -> -6000
      [] x = 1  -> 0
      [] x = 2  -> 301
      [] x = 10 -> 1000
      [] x = 11 -> 1041

\* StandardScaler().fit_transform: (x - mean) / std over the rows of X, a
\* zero std replaced by 1; z is held exactly as the pair <<n*x - S, n*Q - S*S>>
StandardScale(X, feats) ==
    LET n == Len(X)
        S == [j \in 1..Len(feats) |-> SumSeq([i \in 1..n |-> X[i][j]])]
        Q == [j \in 1..Len(feats) |-> SumSeq([i \in 1..n |-> X[i][j] * X[i][j]])]
    IN  [i \in 1..n |->
            [j \in 1..Len(feats) |-> <<n * X[i][j] - S[j], n * Q[j] - S[j] * S[j]>>]]

\* a variant that fits the scaler on every row of the table that has the
\* features, and transforms the fetched rows with it
PreprocessAllRows(store, ids, feats) ==
    LET all == AscSeq({id \in DOMAIN store : \A j \in 1..Len(feats) : store[id][feats[j]] # NULL})
        X   == [i \in 1..Len(all) |->
                  [j \in 1..Len(feats) |-> Log10Milli(store[all[i]][feats[j]])]]
        Z   == StandardScale(X, feats)
    IN  [i \in 1..Len(ids) |-> Z[CHOOSE n \in 1..Len(all) : all[n] = ids[i]]]

\* X = df[features]; X[col] = np.log10(X[col] + 1e-6); scaler.fit_transform(X)
Preprocess(store, ids, feats) ==
    LET X == [i \in 1..Len(ids) |->
                [j \in 1..Len(feats) |-> Log10Milli(store[ids[i]][feats[j]])]]
    IN  StandardScale(X, feats)

\* the cluster indices the fitter's answers are drawn from
LabelValues(k) == {0, k - 1}

\* KMeans(n_clusters=k, random_state=42, n_init=10).fit_predict(X): one label
\* in [0, k) per row, equal rows labelled alike and, there being no more
\* different rows than labels, different rows apart.  The seed makes the
\* answer a function of the matrix as ordered; the query that builds the
\* matrix has no ORDER BY, so the order is the store's choice at every call
\* and any such labelling may come back.
KMeans(X, k) ==
    LET points == Range(X)
    IN  {[i \in 1..Len(X) |-> m[X[i]]] :
            m \in {f \in [points -> LabelValues(k)] :
                      Cardinality(points) <= Cardinality(LabelValues(k))
                          => \A a, b \in points : a # b => f[a] # f[b]}}

\* a variant that appends: INSERT INTO planets ({col}) VALUES (%s) for each pair
RECURSIVE ExecuteManyInsert(_, _, _)
ExecuteManyInsert(store, col, update_data) ==
    IF update_data = <<>> THEN store
    ELSE LET label == update_data[1][1]
             id    == update_data[1][2]
             new   == Cardinality(DOMAIN store) + 1
             next  == [i \in DOMAIN store \cup {new} |->
                          IF i = new THEN [store[id] EXCEPT ![col] = label] ELSE store[i]]
         IN  ExecuteManyInsert(next, col, Tail(update_data))

RECURSIVE ExecuteMany(_, _, _)
\* cursor.executemany("UPDATE planets SET {col} = %s WHERE planet_id = %s", update_data)
ExecuteMany(store, col, update_data) ==
    IF update_data = <<>> THEN store
    ELSE LET label == update_data[1][1]
             id    == update_data[1][2]
             next  == IF id \in DOMAIN store
                      THEN [store EXCEPT ![id][col] = label]
                      ELSE store
         IN  ExecuteMany(next, col, Tail(update_data))

\* a variant that takes the ids from the frame read the other way round:
\* zip(df['cluster_label'], df['planet_id'][::-1])
ZipReversed(labels, ids) == [i \in 1..Len(ids) |-> <<labels[i], ids[Len(ids) + 1 - i]>>]

\* a variant with the columns in the other order: zip(df['planet_id'], df['cluster_label'])
ZipSwapped(labels, ids) == [i \in 1..Len(ids) |-> <<ids[i], labels[i]>>]

\* list(zip(df['cluster_label'].astype(int), df['planet_id'].astype(int)))
Zip(labels, ids) == [i \in 1..Len(ids) |-> <<labels[i], ids[i]>>]

NoRun == [stage |-> "", ids |-> <<>>, rows |-> <<>>, labels |-> <<>>]

\* main() of 06_execute_queries.py not started
NoExport ==
    [pc |-> "idle", next |-> 1, conn |-> "closed", broken |-> {}, empty |-> {},
     results |-> <<>>, exported |-> {}, summary |-> <<>>]

\* query_nasa_tap not called
NoTap ==
    [pc |-> "idle", max_retries |-> 0, attempt |-> 0, requests |-> 0, failed |-> <<>>,
     slept |-> <<>>, result |-> "none"]

\* the __main__ block before it starts, and in the specifications that do not run it
NoMain ==
    [pc |-> "idle", todo |-> <<>>, stage |-> "",
     update_data |-> <<>>, next |-> 1, work |-> <<>>, out |-> <<>>,
     started |-> {}, fitted |-> {}, raised |-> "", attempts |-> [s \in Stages |-> 0],
     all_stats |-> <<>>]

\* df[features] of the rows `ids`, as fetched
FeatureRows(store, ids, feats) ==
    [i \in 1..Len(ids) |-> [j \in 1..Len(feats) |-> store[ids[i]][feats[j]]]]

\* df = pd.read_sql(query, conn).dropna(subset=features); if len(df) < 10: return None;
\* fit, UPDATE planets SET {col}, commit, return df.  The caller drops the
\* return value, so a run that returns None leaves no trace.
run_clustering(stage) ==
    LET config   == STAGES[stage]
        features == config.feats
        eligible == DropNa(planets, SelectFlagged(planets, stage), features)
    IN  \E ids \in RowOrders(eligible) :
          IF Len(ids) < MinRows
          THEN UNCHANGED vars
          ELSE /\ \E labels \in KMeans(Preprocess(planets, ids, features), config.k) :
                    \* the same matrix in the same order as the call before: the same answer
                    /\ (/\ last_run.stage = stage
                        /\ last_run.ids = ids
                        /\ last_run.rows = FeatureRows(planets, ids, features))
                          => labels = last_run.labels
                    /\ planets' = ExecuteMany(planets, config.col, Zip(labels, ids))
                    /\ last_run' = [stage |-> stage, ids |-> ids,
                                    rows |-> FeatureRows(planets, ids, features), labels |-> labels]
               /\ UNCHANGED <<stars, discoveries, stage_stats, scatter, main, tap, export>>

RunClustering == \E stage \in Stages : run_clustering(stage)

-----------------------------------------------------------------------------
(* 04_database_import.py *)

\* the value a serial key column takes for a new row
NextId(table) ==
    IF DOMAIN table = {} THEN 1
    ELSE 1 + (CHOOSE x \in DOMAIN table : \A y \in DOMAIN table : y <= x)

\* df[['hostname', 'sy_dist']].drop_duplicates('hostname').dropna(subset=['hostname'])
StarsDf(df) ==
    LET keep == {i \in 1..Len(df) :
                    /\ df[i].hostname # NULL
                    /\ \A j \in 1..(i - 1) : df[j].hostname # df[i].hostname}
        idx  == AscSeq(keep)
    IN  [n \in 1..Len(idx) |-> [hostname |-> df[idx[n]].hostname, sy_dist |-> df[idx[n]].sy_dist]]

\* a variant that rebuilds the dictionary around the id just returned:
\* dict.fromkeys(keys, id)
RememberLast(map, key, id) == [k \in DOMAIN map \cup {key} |-> id]

\* star_id_map[hostname] = star_id / planet_id_map[pl_name] = planet_id
Remember(map, key, id) == (key :> id) @@ map

\* a variant for a table without the unique index: no row ever conflicts
NoConflict(table, column, value) == {}

\* ON CONFLICT (hostname) / ON CONFLICT (pl_name): the rows of the table that
\* hold the natural key of the row offered
Conflict(table, column, value) == {id \in DOMAIN table : table[id][column] = value}

\* the uncommitted table, the id map, the counts and the next value of the
\* serial key when a loop starts
StartOfLoop(table) ==
    [work |-> table, map |-> <<>>, inserted |-> 0, skipped |-> 0, seq |-> NextId(table)]

RECURSIVE import_stars_loop(_, _, _, _, _)
\* for idx, row in stars_df.iterrows(): INSERT ... ON CONFLICT (hostname) DO UPDATE;
\* on psycopg2.Error: conn.rollback(); continue.  The rollback undoes every
\* row written since the loop began; the dictionary and the serial key keep
\* what they have.
import_stars_loop(committed, acc, stars_df, i, bad) ==
    IF i > Len(stars_df) THEN acc
    ELSE LET row == stars_df[i]
         IN  IF row.hostname \in bad
             THEN import_stars_loop(committed, [acc EXCEPT !.work = committed], stars_df, i + 1, bad)
             ELSE LET hit     == Conflict(acc.work, "hostname", row.hostname)
                      star_id == IF hit # {} THEN CHOOSE id \in hit : TRUE ELSE acc.seq
                      work    == IF hit # {}
                                 THEN [acc.work EXCEPT ![star_id].sy_dist = row.sy_dist]
                                 ELSE acc.work @@ (star_id :> [hostname |-> row.hostname, sy_dist |-> row.sy_dist])
                  IN  import_stars_loop(committed,
                          [work |-> work, map |-> Remember(acc.map, row.hostname, star_id),
                           inserted |-> acc.inserted + 1, skipped |-> acc.skipped,
                           seq |-> IF hit # {} THEN acc.seq ELSE acc.seq + 1],
                          stars_df, i + 1, bad)

\* import_stars(conn, df): the table as committed, star_id_map and the count reported
import_stars(table, df, bad) ==
    import_stars_loop(table, StartOfLoop(table), StarsDf(df), 1, bad)

\* a variant of the conversion that writes 0 for a missing value
FloatOrZero(v) == IF v = NULL THEN 0 ELSE v

\* None if pd.isna(row.get(col)) else float(row[col])
FloatOrNone(v) == IF v = NULL THEN NULL ELSE v

\* a row as INSERT INTO planets (pl_name, star_id, pl_masse, ...) creates it:
\* the columns the statement does not name take their defaults
NewPlanetRow(row, star_id) ==
    [pl_name |-> row.pl_name, star_id |-> star_id,
     pl_masse |-> FloatOrNone(row.pl_masse), pl_rade |-> FloatOrNone(row.pl_rade),
     pl_orbper |-> FloatOrNone(row.pl_orbper), pl_eqt |-> FloatOrNone(row.pl_eqt),
     density |-> FloatOrNone(row.density),
     in_stage1 |-> FALSE, in_stage1c |-> FALSE, in_stage2 |-> FALSE, in_stage2c |-> FALSE,
     cluster_s1 |-> NULL, cluster_s1c |-> NULL, cluster_s2 |-> NULL, cluster_s2c |-> NULL,
     cluster_id |-> NULL]

\* a variant that replaces the row on conflict (delete, then insert): the
\* columns the statement does not name fall back to their defaults
UpdatedPlanetRowReplaced(old, row) == NewPlanetRow(row, old.star_id)

\* ON CONFLICT (pl_name) DO UPDATE SET pl_masse = EXCLUDED.pl_masse, ...
UpdatedPlanetRow(old, row) ==
    [old EXCEPT !.pl_masse = FloatOrNone(row.pl_masse), !.pl_rade = FloatOrNone(row.pl_rade),
                !.pl_orbper = FloatOrNone(row.pl_orbper), !.pl_eqt = FloatOrNone(row.pl_eqt),
                !.density = FloatOrNone(row.density)]

\* a schema without the reference: planets.star_id is a plain integer column
ForeignKeyUnchecked(star_table, star_id) == TRUE

\* planets.star_id references stars: the store accepts a new planet row only
\* if its star_id is the key of a row of stars
ForeignKeyHolds(star_table, star_id) == star_id \in DOMAIN star_table

RECURSIVE import_planets_loop(_, _, _, _, _, _, _)
\* for idx, row in df.iterrows(): skip the row if its hostname is not in
\* star_id_map, else upsert it; on psycopg2.Error: conn.rollback(); continue
import_planets_loop(committed, acc, df, star_id_map, star_table, i, bad) ==
    IF i > Len(df) THEN acc
    ELSE LET row == df[i]
         IN  IF row.hostname \notin DOMAIN star_id_map
             THEN import_planets_loop(committed, [acc EXCEPT !.skipped = @ + 1],
                                      df, star_id_map, star_table, i + 1, bad)
             ELSE LET star_id   == star_id_map[row.hostname]
                      hit       == Conflict(acc.work, "pl_name", row.pl_name)
                      planet_id == IF hit # {} THEN CHOOSE id \in hit : TRUE ELSE acc.seq
                      work      == IF hit # {}
                                   THEN [acc.work EXCEPT ![planet_id] = UpdatedPlanetRow(@, row)]
                                   ELSE acc.work @@ (planet_id :> NewPlanetRow(row, star_id))
                  IN  IF \/ row.pl_name \in bad
                         \/ hit = {} /\ ~ForeignKeyHolds(star_table, star_id)
                      THEN import_planets_loop(committed,
                               [acc EXCEPT !.work = committed, !.skipped = @ + 1],
                               df, star_id_map, star_table, i + 1, bad)
                      ELSE import_planets_loop(committed,
                               [work |-> work, map |-> Remember(acc.map, row.pl_name, planet_id),
                                inserted |-> acc.inserted + 1, skipped |-> acc.skipped,
                                seq |-> IF hit # {} THEN acc.seq ELSE acc.seq + 1],
                               df, star_id_map, star_table, i + 1, bad)

\* import_planets(conn, df, star_id_map), on a store whose stars are star_table
import_planets(table, df, star_id_map, star_table, bad) ==
    import_planets_loop(table, StartOfLoop(table), df, star_id_map, star_table, 1, bad)

RECURSIVE import_discoveries_loop(_, _, _, _, _, _, _)
\* for idx, row in df.iterrows(): skip the row if its pl_name is not in
\* planet_id_map, else upsert by planet_id; on psycopg2.Error: conn.rollback(); continue
import_discoveries_loop(committed, acc, df, planet_id_map, planet_table, i, bad) ==
    IF i > Len(df) THEN acc
    ELSE LET row == df[i]
         IN  IF row.pl_name \notin DOMAIN planet_id_map
             THEN import_discoveries_loop(committed, [acc EXCEPT !.skipped = @ + 1],
                                          df, planet_id_map, planet_table, i + 1, bad)
             ELSE LET planet_id == planet_id_map[row.pl_name]
                      rec       == [discoverymethod |-> row.discoverymethod, disc_year |-> row.disc_year]
                      work      == IF planet_id \in DOMAIN acc.work
                                   THEN [acc.work EXCEPT ![planet_id] = rec]
                                   ELSE acc.work @@ (planet_id :> rec)
                  IN  IF \/ row.pl_name \in bad
                         \/ planet_id \notin DOMAIN acc.work /\ ~ForeignKeyHolds(planet_table, planet_id)
                      THEN import_discoveries_loop(committed,
                               [acc EXCEPT !.work = committed, !.skipped = @ + 1],
                               df, planet_id_map, planet_table, i + 1, bad)
                      ELSE import_discoveries_loop(committed,
                               [acc EXCEPT !.work = work, !.inserted = @ + 1],
                               df, planet_id_map, planet_table, i + 1, bad)

\* import_discoveries(conn, df, planet_id_map), on a store whose planets are planet_table
import_discoveries(table, df, planet_id_map, planet_table, bad) ==
    import_discoveries_loop(table, StartOfLoop(table), df, planet_id_map, planet_table, 1, bad)

\* the rows the store may refuse during one import: none, or one row of one table
Rejections ==
    { [stars |-> {}, planets |-> {}, discoveries |-> {}],
      [stars |-> {1}, planets |-> {}, discoveries |-> {}],
      [stars |-> {}, planets |-> {2}, discoveries |-> {}],
      [stars |-> {}, planets |-> {}, discoveries |-> {2}] }

\* main() as a function of the three tables: import stars, planets and
\* discoveries from df, each committed at its end; `bad` names the rows the
\* store refuses.  The result holds the tables and what each step returned.
ImportOutcome(star_table, planet_table, discovery_table, df, bad) ==
    LET s == import_stars(star_table, df, bad.stars)
        p == import_planets(planet_table, df, s.map, s.work, bad.planets)
        d == import_discoveries(discovery_table, df, p.map, p.work, bad.discoveries)
    IN  [stars |-> s.work, planets |-> p.work, discoveries |-> d.work,
         star_id_map |-> s.map, planet_id_map |-> p.map,
         stars_imported |-> s.inserted, planets_imported |-> p.inserted,
         discoveries_imported |-> d.inserted]

\* main() on the store
main_import(df, bad) ==
    LET out == ImportOutcome(stars, planets, discoveries, df, bad)
    IN  /\ stars' = out.stars
        /\ planets' = out.planets
        /\ discoveries' = out.discoveries

\* one run of the import script on the cleaned CSV
ImportData ==
    /\ \E first \in FirstPlanetChoices, bad \in Rejections : main_import(Csv(first), bad)
    /\ UNCHANGED <<last_run, stage_stats, scatter, main, tap, export>>

-----------------------------------------------------------------------------
(* The radius ranking: get_stage_stats (10) and generate_labeled_scatter (11) *)

\* SELECT ... FROM planets WHERE {col} IS NOT NULL
WithCluster(store, col) == {id \in DOMAIN store : store[id][col] # NULL}

\* the values of {col} the selected rows hold: the groups of GROUP BY / groupby
ClusterIds(store, col) == {store[id][col] : id \in WithCluster(store, col)}

\* AVG(field) / .mean() over the rows `ids`: NULLs are left out; held exactly
\* as sum and number of the values, n = 0 being NULL / NaN
Avg(store, ids, field) ==
    LET known == AscSeq({id \in ids : store[id][field] # NULL})
    IN  [sum |-> SumSeq([i \in 1..Len(known) |-> store[known[i]][field]]), n |-> Len(known)]

IsNaN(a) == a.n = 0

\* a < b for two means that are numbers
AvgLess(a, b) == a.sum * b.n < b.sum * a.n

\* a sorts before b in ascending order of the key, NaN keys last
Before(a, b, by) ==
    \/ ~IsNaN(a[by]) /\ IsNaN(b[by])
    \/ ~IsNaN(a[by]) /\ ~IsNaN(b[by]) /\ AvgLess(a[by], b[by])

\* a variant sorting the other way: sort_values(by, ascending=False)
RECURSIVE SortValuesDescending(_, _)
SortValuesDescending(rows, by) ==
    IF rows = {} THEN {<<>>}
    ELSE UNION {{<<r>> \o s : s \in SortValuesDescending(rows \ {r}, by)} :
                   r \in {x \in rows :
                            \A y \in rows :
                                ~(\/ ~IsNaN(y[by]) /\ IsNaN(x[by])
                                  \/ ~IsNaN(y[by]) /\ ~IsNaN(x[by]) /\ AvgLess(x[by], y[by]))}}

\* sort_values(by): the orders an ascending sort may leave the rows in, NaN
\* keys last; the default sort is not stable and the rows of a GROUP BY come
\* in no fixed order, so rows with equal keys can end in any order
RECURSIVE SortValues(_, _)
SortValues(rows, by) ==
    IF rows = {} THEN {<<>>}
    ELSE UNION {{<<r>> \o s : s \in SortValues(rows \ {r}, by)} :
                   r \in {x \in rows : \A y \in rows : ~Before(y, x, by)}}

\* a variant that keeps the 0-based index: df.index
RankOfIndex(index) == index

\* df.index + 1 / cluster_stats.index + 1: the rank of the row at a 0-based index
RankOf(index) == index + 1

\* f"Cluster #{x} (by Radius)"
DashboardLabel(x) == [num |-> x, mark |-> "by Radius"]

\* SELECT {col} as cluster_id, COUNT(*), AVG(pl_rade), AVG(pl_orbper), AVG(pl_eqt)
\* FROM planets WHERE {col} IS NOT NULL GROUP BY {col}
StatsQuery(store, col) ==
    {LET ids == {id \in WithCluster(store, col) : store[id][col] = c}
     IN  [cluster_id |-> c, count |-> Cardinality(ids),
          avg_rad |-> Avg(store, ids, "pl_rade"),
          avg_period |-> Avg(store, ids, "pl_orbper"),
          avg_temp |-> Avg(store, ids, "pl_eqt")] : c \in ClusterIds(store, col)}

\* if df.empty: return None
NoStats == <<>>

\* df.sort_values('avg_rad').reset_index(drop=True); df['Size Rank'] = df.index + 1;
\* df['Cluster Group'] = ...; df['Stage'] = stage_name
get_stage_stats(stage) ==
    LET df == StatsQuery(planets, STAGES[stage].col)
    IN  IF df = {} THEN stage_stats' = NoStats
        ELSE \E sorted \in SortValues(df, "avg_rad") :
               stage_stats' =
                   [i \in 1..Len(sorted) |->
                       [cluster_id |-> sorted[i].cluster_id, count |-> sorted[i].count,
                        avg_rad |-> sorted[i].avg_rad, avg_period |-> sorted[i].avg_period,
                        avg_temp |-> sorted[i].avg_temp,
                        SizeRank |-> RankOf(i - 1), ClusterGroup |-> DashboardLabel(RankOf(i - 1)),
                        Stage |-> stage]]

GetStageStats ==
    /\ \E stage \in Stages : get_stage_stats(stage)
    /\ UNCHANGED <<planets, stars, discoveries, last_run, scatter, main, tap, export>>

RANK_PALETTE ==
    { [num |-> 1, mark |-> "Smallest"], [num |-> 2, mark |-> ""], [num |-> 3, mark |-> ""],
      [num |-> 3, mark |-> "Largest"], [num |-> 4, mark |-> "Largest"] }

\* get_label(rank, total): "Cluster #1 (Smallest)", f"Cluster #{total} (Largest)", f"Cluster #{rank}"
get_label(rank, total) ==
    IF rank = 1 THEN [num |-> 1, mark |-> "Smallest"]
    ELSE IF rank = total THEN [num |-> total, mark |-> "Largest"]
    ELSE [num |-> rank, mark |-> ""]

\* a variant that averages the wrong column: df.groupby('cluster_id')['cluster_id'].mean()
GroupMeansOfId(store, col) ==
    {[cluster_id |-> c, pl_rade |-> [sum |-> c, n |-> 1]] : c \in ClusterIds(store, col)}

\* df.groupby('cluster_id')['pl_rade'].mean()
GroupMeans(store, col) ==
    {[cluster_id |-> c,
      pl_rade |-> Avg(store, {id \in WithCluster(store, col) : store[id][col] = c}, "pl_rade")]
        : c \in ClusterIds(store, col)}

\* total_clusters = len(cluster_stats); for _, row in cluster_stats.iterrows():
\*     id_to_label[row['cluster_id']] = get_label(int(row['Rank']), total_clusters)
IdToLabel(cluster_stats) ==
    [c \in {cluster_stats[i].cluster_id : i \in 1..Len(cluster_stats)} |->
        LET row == CHOOSE i \in 1..Len(cluster_stats) : cluster_stats[i].cluster_id = c
        IN  get_label(cluster_stats[row].Rank, Len(cluster_stats))]

\* if df.empty: print("  Skipping (No data found)"); return
NoScatter == [stage |-> "", cluster_stats |-> <<>>, id_to_label |-> <<>>, saved |-> FALSE]

generate_labeled_scatter(stage) ==
    LET db_col == STAGES[stage].col
    IN  IF WithCluster(planets, db_col) = {} THEN scatter' = NoScatter
        ELSE \E sorted \in SortValues(GroupMeans(planets, db_col), "pl_rade") :
               LET cluster_stats == [i \in 1..Len(sorted) |->
                                       [cluster_id |-> sorted[i].cluster_id,
                                        pl_rade |-> sorted[i].pl_rade, Rank |-> RankOf(i - 1)]]
                   id_to_label   == IdToLabel(cluster_stats)
               IN  scatter' = [stage |-> stage, cluster_stats |-> cluster_stats,
                               id_to_label |-> id_to_label,
                               saved |-> \A c \in DOMAIN id_to_label : id_to_label[c] \in RANK_PALETTE]

GenerateLabeledScatter ==
    /\ \E stage \in Stages : generate_labeled_scatter(stage)
    /\ UNCHANGED <<planets, stars, discoveries, last_run, stage_stats, main, tap, export>>

-----------------------------------------------------------------------------
(* The store after the schema scripts, a first import and the stage flagging *)

\* how many planets, counted from the first, carry the flag of each stage:
\* one stage holds every planet and the others one too few to be clustered,
\* or "Stage 1" holds every planet and "Stage 2c" exactly MinRows of them
FlagLayouts ==
    { [t \in Stages |-> IF t = s THEN NumPlanets ELSE MinRows - 1] : s \in Stages }
    \cup
    { [t \in Stages |-> CASE t = "Stage 1" -> NumPlanets
                          [] t = "Stage 2c" -> MinRows
                          [] OTHER -> MinRows - 1] }

FlagsOf(i, layout) ==
    [in_stage1  |-> i <= layout["Stage 1"],  in_stage1c |-> i <= layout["Stage 1c"],
     in_stage2  |-> i <= layout["Stage 2"],  in_stage2c |-> i <= layout["Stage 2c"]]

PlanetRow(r, star_id, flags) ==
    [pl_name |-> r.pl_name, star_id |-> star_id,
     pl_masse |-> r.pl_masse, pl_rade |-> r.pl_rade, pl_orbper |-> r.pl_orbper,
     pl_eqt |-> r.pl_eqt, density |-> r.density,
     in_stage1 |-> flags.in_stage1, in_stage1c |-> flags.in_stage1c,
     in_stage2 |-> flags.in_stage2, in_stage2c |-> flags.in_stage2c,
     cluster_s1 |-> NULL, cluster_s1c |-> NULL, cluster_s2 |-> NULL, cluster_s2c |-> NULL,
     cluster_id |-> NULL]

Init ==
    \E layout \in FlagLayouts :
        /\ planets = [i \in 1..NumPlanets |->
                        PlanetRow(Csv(SmallPlanet)[i], HostOf(i), FlagsOf(i, layout))]
        /\ stars = [h \in {HostOf(i) : i \in 1..NumPlanets} |-> [hostname |-> h, sy_dist |-> 10 * h]]
        /\ discoveries = [i \in 1..NumPlanets |->
                            [discoverymethod |-> Csv(SmallPlanet)[i].discoverymethod,
                             disc_year |-> Csv(SmallPlanet)[i].disc_year]]
        /\ last_run = NoRun
        /\ stage_stats = NoStats
        /\ scatter = NoScatter
        /\ main = NoMain
        /\ tap = NoTap /\ export = NoExport

Next ==
    \/ ImportData
    \/ RunClustering

Spec == Init /\ [][Next]_vars

-----------------------------------------------------------------------------
(* Properties of the store under imports and clustering runs *)

HasFeatures(store, id, feats) == \A i \in 1..Len(feats) : store[id][feats[i]] # NULL

LastCol == STAGES[last_run.stage].col

LastIds == Range(last_run.ids)

\* C1: after the latest run of a stage, every planet that run did not cluster
\* holds NULL in the stage's column, never a value an earlier run left there.
C1_IneligibleIsNull ==
    last_run.stage # "" =>
        \A id \in DOMAIN planets : id \notin LastIds => planets[id][LastCol] = NULL

\* C2 as stated: a run clusters a planet if and only if every feature of the
\* stage is present for it.
C2_SelectedIffFeatures ==
    [][last_run' # last_run =>
          \A id \in DOMAIN planets :
              id \in Range(last_run'.ids)
                  <=> HasFeatures(planets, id, STAGES[last_run'.stage].feats)]_vars

\* C2 as amended: a run that fits clusters a planet if and only if the stage's
\* flag is set for it and every feature of the stage is present; a planet it
\* does not cluster is not in the fitter's input and its column is not written.
C2_SelectedIffFlaggedWithFeatures ==
    [][last_run' # last_run =>
          LET config == STAGES[last_run'.stage]
          IN  \A id \in DOMAIN planets :
                /\ id \in Range(last_run'.ids)
                      <=> (/\ planets[id][config.db_flag] = TRUE
                           /\ HasFeatures(planets, id, config.feats))
                /\ id \notin Range(last_run'.ids)
                      => planets'[id][config.col] = planets[id][config.col]]_vars

\* a run has left out a planet that lacks a feature, and a planet that has
\* every feature but not the flag
C2_Witness ==
    /\ last_run.stage # ""
    /\ \E id \in DOMAIN planets \ LastIds :
          /\ planets[id][STAGES[last_run.stage].db_flag] = TRUE
          /\ ~HasFeatures(planets, id, STAGES[last_run.stage].feats)
    /\ \E id \in DOMAIN planets \ LastIds :
          /\ planets[id][STAGES[last_run.stage].db_flag] = FALSE
          /\ HasFeatures(planets, id, STAGES[last_run.stage].feats)
          /\ planets[id][LastCol] = NULL

\* C3 as stated: every persisted value is a rank in [1, k] and the values in
\* use are exactly 1..k'.
C3_ValuesAreRanks ==
    \A stage \in Stages :
        LET used == ClusterIds(planets, STAGES[stage].col)
        IN  used \subseteq 1..STAGES[stage].k /\ used = 1..Cardinality(used)

\* C3 as amended: every persisted value is the raw cluster index the fitter
\* gave the planet, in [0, k-1], so at most k values are in use.
C3_ValuesAreRawIndices ==
    /\ \A stage \in Stages :
          LET used == ClusterIds(planets, STAGES[stage].col)
          IN  used \subseteq 0..(STAGES[stage].k - 1) /\ Cardinality(used) <= STAGES[stage].k
    /\ last_run.stage # "" =>
          \A i \in 1..Len(last_run.ids) : planets[last_run.ids[i]][LastCol] = last_run.labels[i]

\* a run has persisted the indices 0 and k-1
C3_Witness ==
    /\ last_run.stage # ""
    /\ ClusterIds(planets, LastCol) = {0, STAGES[last_run.stage].k - 1}

\* C4: persisting the assignments of the latest run a second time leaves the
\* store as the first persist left it: no row is added, no value changes.
C4_PersistIdempotent ==
    last_run.stage # "" =>
        ExecuteMany(planets, LastCol, Zip(last_run.labels, last_run.ids)) = planets

\* a run has persisted its assignments, two values among them
C4_Witness ==
    /\ last_run.stage # ""
    /\ \A i \in 1..Len(last_run.ids) : planets[last_run.ids[i]][LastCol] = last_run.labels[i]
    /\ Cardinality(Range(last_run.labels)) = 2
    /\ Len(last_run.ids) >= MinRows

\* what a run was given, and what it assigned, whatever the row order
RunInput(run) == {<<run.ids[i], run.rows[i]>> : i \in 1..Len(run.ids)}

RunAssignment(run) == {<<run.ids[i], run.labels[i]>> : i \in 1..Len(run.ids)}

\* C5: a stage run again on the same planets with the same feature values
\* persists the same assignment as the run before.
C5_RerunRepeats ==
    [][(/\ last_run.stage # ""
        /\ last_run'.stage = last_run.stage
        /\ RunInput(last_run') = RunInput(last_run))
          => RunAssignment(last_run') = RunAssignment(last_run)]_vars

-----------------------------------------------------------------------------
(* The ranking applied to small tables of persisted cluster values: both    *)
(* rankings are functions of the rows that hold a value in the column       *)

\* the radii of the planets of such a table: all different, all equal, or
\* every other one unknown
RadiusProfiles == {"distinct", "equal", "partial"}

RadiusOf(profile, i) ==
    CASE profile = "distinct" -> <<1, 2, 10, 11>>[((i - 1) % 4) + 1]
      [] profile = "equal"    -> 1
      [] profile = "partial"  -> IF i % 2 = 1 THEN NULL ELSE <<1, 10>>[((i \div 2 - 1) % 2) + 1]

InitRank ==
    \E stage \in Stages, profile \in RadiusProfiles :
      \E cluster \in [1..RankRows -> {NULL} \cup (0..(STAGES[stage].k - 1))] :
        /\ planets = [i \in 1..RankRows |->
                        [PlanetRow([Csv(SmallPlanet)[i] EXCEPT !.pl_rade = RadiusOf(profile, i)],
                                   HostOf(i), FlagsOf(i, [t \in Stages |-> RankRows]))
                            EXCEPT ![STAGES[stage].col] = cluster[i]]]
        /\ stars = [h \in {HostOf(i) : i \in 1..RankRows} |-> [hostname |-> h, sy_dist |-> 10 * h]]
        /\ discoveries = [i \in 1..RankRows |->
                            [discoverymethod |-> Csv(SmallPlanet)[i].discoverymethod,
                             disc_year |-> Csv(SmallPlanet)[i].disc_year]]
        /\ last_run = NoRun
        /\ stage_stats = NoStats
        /\ scatter = NoScatter
        /\ main = NoMain
        /\ tap = NoTap /\ export = NoExport

\* each table is reported on once, by either script
NextRank ==
    \/ stage_stats = NoStats /\ scatter = NoScatter /\ GetStageStats
    \/ stage_stats = NoStats /\ scatter = NoScatter /\ GenerateLabeledScatter

SpecRank == InitRank /\ [][NextRank]_vars

-----------------------------------------------------------------------------
(* Properties of the ranking *)

\* the planets of cluster c of a column whose radius is known
KnownRadii(col, c) == {id \in DOMAIN planets : planets[id][col] = c /\ planets[id].pl_rade # NULL}

RECURSIVE RadiusTotal(_)
RadiusTotal(ids) ==
    IF ids = {} THEN 0
    ELSE LET id == CHOOSE x \in ids : TRUE
         IN  planets[id].pl_rade + RadiusTotal(ids \ {id})

HasMean(col, c) == KnownRadii(col, c) # {}

\* mean radius of c1 <= mean radius of c2
MeanLeq(col, c1, c2) ==
    RadiusTotal(KnownRadii(col, c1)) * Cardinality(KnownRadii(col, c2))
        <= RadiusTotal(KnownRadii(col, c2)) * Cardinality(KnownRadii(col, c1))

StatsCol == STAGES[stage_stats[1].Stage].col

ScatterCol == STAGES[scatter.stage].col

\* the rank the dashboard / the scatterplot gave a cluster
StatsRank(c) == stage_stats[CHOOSE i \in 1..Len(stage_stats) : stage_stats[i].cluster_id = c].SizeRank

ScatterRank(c) ==
    scatter.cluster_stats[CHOOSE i \in 1..Len(scatter.cluster_stats) :
                              scatter.cluster_stats[i].cluster_id = c].Rank

\* C6: of two clusters that have a mean radius, the lower-ranked has the
\* smaller or equal mean, in the dashboard's ranking and in the scatterplot's;
\* a cluster none of whose radii is known ranks after those that have a mean.
C6_RankMonotoneInMeanRadius ==
    /\ stage_stats # NoStats =>
          \A c1, c2 \in ClusterIds(planets, StatsCol) :
              StatsRank(c1) < StatsRank(c2) =>
                  /\ HasMean(StatsCol, c2) => HasMean(StatsCol, c1)
                  /\ (HasMean(StatsCol, c1) /\ HasMean(StatsCol, c2)) => MeanLeq(StatsCol, c1, c2)
    /\ scatter.stage # "" =>
          \A c1, c2 \in ClusterIds(planets, ScatterCol) :
              ScatterRank(c1) < ScatterRank(c2) =>
                  /\ HasMean(ScatterCol, c2) => HasMean(ScatterCol, c1)
                  /\ (HasMean(ScatterCol, c1) /\ HasMean(ScatterCol, c2))
                        => MeanLeq(ScatterCol, c1, c2)

\* three clusters of different mean radius have been ranked
C6_Witness ==
    /\ stage_stats # NoStats
    /\ Len(stage_stats) = 3
    /\ \A c1, c2 \in ClusterIds(planets, StatsCol) :
          StatsRank(c1) < StatsRank(c2) =>
              /\ HasMean(StatsCol, c1) /\ HasMean(StatsCol, c2)
              /\ ~MeanLeq(StatsCol, c2, c1)

\* the one-to-one renamings of the raw indices 0..k-1
IndexPermutations(k) ==
    {p \in [0..(k - 1) -> 0..(k - 1)] : \A a, b \in 0..(k - 1) : a # b => p[a] # p[b]}

\* the store with the raw indices of a column renamed by p
PermuteIndices(store, col, p) ==
    [id \in DOMAIN store |->
        IF store[id][col] = NULL THEN store[id]
        ELSE [store[id] EXCEPT ![col] = p[store[id][col]]]]

\* the rank of cluster c in a sorted table
RankIn(sorted, c) == RankOf((CHOOSE i \in 1..Len(sorted) : sorted[i].cluster_id = c) - 1)

MeansDistinct(col) ==
    \A c1, c2 \in ClusterIds(planets, col) :
        /\ HasMean(col, c1)
        /\ c1 # c2 => ~(MeanLeq(col, c1, c2) /\ MeanLeq(col, c2, c1))

\* C7: when the clusters' mean radii are distinct, every planet gets the same
\* rank whichever way the raw indices are renamed, from the dashboard's
\* ranking and from the scatterplot's.
C7_RankInvariantUnderPermutation ==
    /\ (stage_stats # NoStats /\ MeansDistinct(StatsCol)) =>
          \A p \in IndexPermutations(STAGES[stage_stats[1].Stage].k) :
            \A sorted \in SortValues(StatsQuery(PermuteIndices(planets, StatsCol, p), StatsCol),
                                     "avg_rad") :
              \A id \in WithCluster(planets, StatsCol) :
                  RankIn(sorted, p[planets[id][StatsCol]]) = StatsRank(planets[id][StatsCol])
    /\ (scatter.stage # "" /\ MeansDistinct(ScatterCol)) =>
          \A p \in IndexPermutations(STAGES[scatter.stage].k) :
            \A sorted \in SortValues(GroupMeans(PermuteIndices(planets, ScatterCol, p), ScatterCol),
                                     "pl_rade") :
              \A id \in WithCluster(planets, ScatterCol) :
                  RankIn(sorted, p[planets[id][ScatterCol]]) = ScatterRank(planets[id][ScatterCol])

\* radii 1, 2, 10, 11 with raw indices 1, 1, 0, 0: the scatterplot ranks the
\* first two planets 1 and the last two 2
C7_Witness ==
    /\ scatter.stage # ""
    /\ \A i \in 1..4 : planets[i].pl_rade = <<1, 2, 10, 11>>[i]
    /\ \A i \in 1..4 : planets[i][ScatterCol] = <<1, 1, 0, 0>>[i]
    /\ ScatterRank(1) = 1
    /\ ScatterRank(0) = 2

\* C8: the ranks given are one-to-one between the raw indices present in the
\* column and 1..k', k' their number: no rank above k', none for an absent index.
C8_RankBijection ==
    /\ stage_stats # NoStats =>
          LET present == ClusterIds(planets, StatsCol)
              n       == Cardinality(present)
          IN  /\ n <= STAGES[stage_stats[1].Stage].k
              /\ Len(stage_stats) = n
              /\ {stage_stats[i].cluster_id : i \in 1..Len(stage_stats)} = present
              /\ {stage_stats[i].SizeRank : i \in 1..Len(stage_stats)} = 1..n
    /\ scatter.stage # "" =>
          LET present == ClusterIds(planets, ScatterCol)
              n       == Cardinality(present)
              stats   == scatter.cluster_stats
          IN  /\ n <= STAGES[scatter.stage].k
              /\ Len(stats) = n
              /\ {stats[i].cluster_id : i \in 1..Len(stats)} = present
              /\ {stats[i].Rank : i \in 1..Len(stats)} = 1..n
              /\ DOMAIN scatter.id_to_label = present

\* fewer raw indices than k are present and have been ranked
C8_Witness ==
    /\ scatter.stage # ""
    /\ Cardinality(ClusterIds(planets, ScatterCol)) = 2
    /\ STAGES[scatter.stage].k = 4
    /\ {scatter.cluster_stats[i].Rank : i \in 1..Len(scatter.cluster_stats)} = {1, 2}

\* C9: of two clusters with the same mean radius, the one with the smaller raw
\* index has the smaller rank in the dashboard's ranking.
C9_TieBrokenByRawIndex ==
    stage_stats # NoStats =>
        \A c1, c2 \in ClusterIds(planets, StatsCol) :
            (/\ c1 < c2
             /\ HasMean(StatsCol, c1) /\ HasMean(StatsCol, c2)
             /\ MeanLeq(StatsCol, c1, c2) /\ MeanLeq(StatsCol, c2, c1))
                => StatsRank(c1) < StatsRank(c2)

\* C10: the label of a ranked cluster shows its rank, marked smallest for
\* rank 1 and largest for the highest rank, in the scatterplot and in the
\* dashboard.
C10_LabelMarksRank ==
    /\ scatter.stage # "" =>
          \A i \in 1..Len(scatter.cluster_stats) :
              LET row   == scatter.cluster_stats[i]
                  label == scatter.id_to_label[row.cluster_id]
              IN  /\ label.num = row.Rank
                  /\ row.Rank = 1 => label.mark = "Smallest"
                  /\ row.Rank = Len(scatter.cluster_stats) => label.mark = "Largest"
    /\ stage_stats # NoStats =>
          \A i \in 1..Len(stage_stats) :
              LET row == stage_stats[i]
              IN  /\ row.ClusterGroup.num = row.SizeRank
                  /\ row.SizeRank = 1 => row.ClusterGroup.mark = "Smallest"
                  /\ row.SizeRank = Len(stage_stats) => row.ClusterGroup.mark = "Largest"

-----------------------------------------------------------------------------
(* 10_cluster_analysis.py, the __main__ block: one run of the driver, step by
   step, with a store that may reject a write *)

\* a variant of the session that runs in autocommit mode: each UPDATE is
\* visible to the other sessions as soon as it is executed
VisibleAfterExecuteAutocommit(committed, work) == work

\* what the other sessions see of planets after one UPDATE of executemany:
\* psycopg2 opens a transaction at the first statement and the connection is
\* not in autocommit mode, so they still see the committed table
VisibleAfterExecute(committed, work) == committed

\* conn = get_db_connection(); update_schema(conn): the cluster columns exist
\* already, ADD COLUMN IF NOT EXISTS changes nothing; the loop is about to start
MainStart == [NoMain EXCEPT !.pc = "clustering", !.todo = StageNames]

\* one turn of `for stage in STAGES.keys(): run_clustering(conn, stage)` up to
\* the executemany: print, fetch, dropna, return None below ten rows, else fit
main_run_clustering ==
    /\ main.pc = "clustering"
    /\ main.todo # <<>>
    /\ LET stage == Head(main.todo)
           config == STAGES[stage]
           features == config.feats
           eligible == DropNa(planets, SelectFlagged(planets, stage), features)
           printed == Append(main.out, [line |-> "Processing", stage |-> stage, k |-> config.k])
       IN  \E ids \in RowOrders(eligible) :
             IF Len(ids) < MinRows
             THEN /\ main' = [main EXCEPT !.todo = Tail(@), !.out = printed,
                                           !.started = @ \cup {stage}]
                  /\ UNCHANGED <<last_run, tap, export>>
             ELSE \E labels \in KMeans(Preprocess(planets, ids, features), config.k) :
                    /\ main' = [main EXCEPT !.pc = "executing", !.stage = stage, !.out = printed,
                                             !.started = @ \cup {stage}, !.fitted = @ \cup {stage},
                                             !.update_data = Zip(labels, ids), !.next = 1,
                                             !.work = planets,
                                             !.attempts[stage] = @ + 1]
                    /\ last_run' = [stage |-> stage, ids |-> ids,
                                    rows |-> FeatureRows(planets, ids, features), labels |-> labels]
    /\ UNCHANGED <<planets, stars, discoveries, stage_stats, scatter, tap, export>>

\* cur.executemany(update_query, update_data), one UPDATE: it changes the
\* session's own uncommitted view
main_execute ==
    /\ main.pc = "executing"
    /\ main.next <= Len(main.update_data)
    /\ LET work == ExecuteMany(main.work, STAGES[main.stage].col,
                               <<main.update_data[main.next]>>)
       IN  /\ main' = [main EXCEPT !.work = work, !.next = @ + 1]
           /\ planets' = VisibleAfterExecute(planets, work)
    /\ UNCHANGED <<stars, discoveries, last_run, stage_stats, scatter, tap, export>>

\* the store rejects one UPDATE: psycopg2 raises, nothing in run_clustering or
\* in the __main__ block catches it, the process ends with a traceback and the
\* server rolls the open transaction back
main_raise ==
    /\ main.pc = "executing"
    /\ main.next <= Len(main.update_data)
    /\ main' = [main EXCEPT !.pc = "crashed", !.raised = main.stage, !.work = <<>>]
    /\ UNCHANGED <<planets, stars, discoveries, last_run, stage_stats, scatter, tap, export>>

\* conn.commit() after the executemany; run_clustering returns df, which the
\* loop drops
main_commit ==
    /\ main.pc = "executing"
    /\ main.next > Len(main.update_data)
    /\ planets' = main.work
    /\ main' = [main EXCEPT !.pc = "clustering", !.todo = Tail(@), !.stage = "",
                             !.work = <<>>, !.update_data = <<>>, !.next = 1]
    /\ UNCHANGED <<stars, discoveries, last_run, stage_stats, scatter, tap, export>>

\* the loop is over: print("Collecting Statistics...")
main_collect ==
    /\ main.pc = "clustering"
    /\ main.todo = <<>>
    /\ main' = [main EXCEPT !.pc = "stats", !.todo = StageNames,
                             !.out = Append(@, [line |-> "Collecting Statistics", stage |-> "", k |-> 0])]
    /\ UNCHANGED <<planets, stars, discoveries, last_run, stage_stats, scatter, tap, export>>

\* stats = get_stage_stats(conn, stage); if stats is not None: all_stats.append(stats)
main_get_stage_stats ==
    /\ main.pc = "stats"
    /\ main.todo # <<>>
    /\ get_stage_stats(Head(main.todo))
    /\ main' = [main EXCEPT !.todo = Tail(@),
                             !.all_stats = IF stage_stats' = NoStats THEN @
                                           ELSE Append(@, [stage |-> Head(main.todo),
                                                           stats |-> stage_stats'])]
    /\ UNCHANGED <<planets, stars, discoveries, last_run, scatter, tap, export>>

\* the dashboard is drawn from all_stats, or "No stats collected." is printed;
\* conn.close()
main_finish ==
    /\ main.pc = "stats"
    /\ main.todo = <<>>
    /\ main' = [main EXCEPT !.pc = "done",
                             !.out = IF main.all_stats = <<>>
                                     THEN Append(@, [line |-> "No stats collected", stage |-> "", k |-> 0])
                                     ELSE @]
    /\ UNCHANGED <<planets, stars, discoveries, last_run, stage_stats, scatter, tap, export>>

\* how many planets carry the flag of each stage when the driver starts: in
\* each layout two stages can be fitted, one has fewer planets than its k and
\* one has one planet too few for the ten-row threshold
DriverLayouts ==
    { [t \in Stages |-> CASE t = "Stage 1"  -> NumPlanets
                          [] t = "Stage 1c" -> STAGES[t].k - 1
                          [] t = "Stage 2"  -> MinRows
                          [] t = "Stage 2c" -> MinRows - 1],
      [t \in Stages |-> CASE t = "Stage 1"  -> STAGES[t].k - 1
                          [] t = "Stage 1c" -> MinRows
                          [] t = "Stage 2"  -> MinRows - 1
                          [] t = "Stage 2c" -> NumPlanets] }

\* the equilibrium temperatures of the catalogue: as in the CSV, or the same
\* for every planet
TemperatureProfiles == {"varied", "flat"}

TemperatureOf(r, profile) == IF profile = "flat" THEN [r EXCEPT !.pl_eqt = 1] ELSE r

\* the store when a run over the stages starts: no cluster column written yet
StoreBeforeRun ==
    \E layout \in DriverLayouts, profile \in TemperatureProfiles, first \in FirstPlanetChoices :
        /\ planets = [i \in 1..NumPlanets |->
                        PlanetRow(TemperatureOf(Csv(first)[i], profile), HostOf(i),
                                  FlagsOf(i, layout))]
        /\ stars = [h \in {HostOf(i) : i \in 1..NumPlanets} |-> [hostname |-> h, sy_dist |-> 10 * h]]
        /\ discoveries = [i \in 1..NumPlanets |->
                            [discoverymethod |-> Csv(first)[i].discoverymethod,
                             disc_year |-> Csv(first)[i].disc_year]]
        /\ last_run = NoRun
        /\ stage_stats = NoStats
        /\ scatter = NoScatter

InitDriver == StoreBeforeRun /\ main = MainStart /\ tap = NoTap /\ export = NoExport

NextDriver ==
    \/ main_run_clustering
    \/ main_execute
    \/ main_raise
    \/ main_commit
    \/ main_collect
    \/ main_get_stage_stats
    \/ main_finish

SpecDriver == InitDriver /\ [][NextDriver]_vars

\* run_clustering called on its own, stage by stage, in any order and any
\* number of times
InitTier == StoreBeforeRun /\ main = NoMain /\ tap = NoTap /\ export = NoExport

NextTier == RunClustering

SpecTier == InitTier /\ [][NextTier]_vars

-----------------------------------------------------------------------------
(* Claims about the driver, checked under SpecDriver *)

\* the run of the driver is over: it finished, or the process died
RunOver == main.pc \in {"done", "crashed"}

\* C11: a failure while one Tier is processed does not abort the run: when the
\* run is over, every Tier has been processed, whether or not an earlier one failed.
C11_EveryTierStillProcessed == RunOver => main.started = Stages

\* what the driver holds about a Tier when it ends: its entry in all_stats
\* (the counts per cluster), or a printed line that tells a skip or a failure.
\* "Processing <stage> (k=..)..." is printed before every Tier alike and tells
\* no outcome; the return value of run_clustering is dropped.
SuccessRecords(stage) == {i \in DOMAIN main.all_stats : main.all_stats[i].stage = stage}

SkipRecords(stage) ==
    {i \in DOMAIN main.out : main.out[i].stage = stage /\ main.out[i].line # "Processing"}

\* C12: at the end of a full run the driver has recorded exactly one outcome
\* for every Tier: a success with its counts, or a failure or skip with its reason.
C12_OneOutcomePerTier ==
    main.pc = "done" =>
        \A stage \in Stages :
            Cardinality(SuccessRecords(stage)) + Cardinality(SkipRecords(stage)) = 1

\* the rows run_clustering fetches for a stage; the driver changes no feature
\* and no flag, so they are the same at every point of a run
EligibleIds(stage) == DropNa(planets, SelectFlagged(planets, stage), STAGES[stage].feats)

\* some feature column of the stage is constant over its rows after the log
\* transform: its standard deviation is zero
ZeroVariance(stage) ==
    \E f \in Range(STAGES[stage].feats) :
        \A a, b \in EligibleIds(stage) :
            Log10Milli(planets[a][f]) = Log10Milli(planets[b][f])

\* C13: a Tier with a feature column of zero variance after the log transform
\* is skipped: the fitter is never invoked for it and nothing is persisted
\* in its column.
C13_DegenerateTierSkipped ==
    \A stage \in Stages :
        ZeroVariance(stage) =>
            /\ stage \notin main.fitted
            /\ \A id \in DOMAIN planets : planets[id][STAGES[stage].col] = NULL

\* a Tier the driver has gone through whose population is smaller than its k
TooFewForK(stage) ==
    /\ stage \in main.started
    /\ Cardinality(EligibleIds(stage)) < STAGES[stage].k

\* C14: a Tier with fewer eligible rows than its k is never passed to the
\* fitter, nothing is persisted for it, and its skip is reported as an
\* insufficient-population outcome.
C14_SmallTierSkippedAndReported ==
    \A stage \in Stages :
        TooFewForK(stage) =>
            /\ stage \notin main.fitted
            /\ \A id \in DOMAIN planets : planets[id][STAGES[stage].col] = NULL
            /\ SkipRecords(stage) # {}

\* the driver's session has a Tier's writes under way
InFlight == main.pc = "executing"

\* C15: a Tier's full result set is written in one transaction.  `planets` is
\* the committed table, which is all another session can read: it does not
\* change while the writes of a Tier are under way nor when one of them fails,
\* and the commit replaces it by the table with the whole result set applied.
C15_TierWrittenInOneTransaction ==
    [][ /\ (InFlight /\ main'.pc = "clustering")
            => planets' = ExecuteMany(planets, STAGES[main.stage].col, main.update_data)
        /\ (InFlight /\ main'.pc # "clustering") => planets' = planets
        /\ ~InFlight => planets' = planets ]_vars

\* the store rejected a write after some of the Tier's writes had been
\* executed, and none of the Tier's results is in the committed table
C15_Witness ==
    /\ main.pc = "crashed"
    /\ main.next > 1
    /\ main.next <= Len(main.update_data)
    /\ \A id \in DOMAIN planets : planets[id][STAGES[main.raised].col] = NULL

\* C16: when the store rejects a write of a Tier, the write is retried exactly
\* once: a Tier whose persistence was given up has been attempted twice, and
\* the Tiers after it are still processed.
C16_RejectedWriteRetriedOnce ==
    \A stage \in Stages :
        main.raised = stage =>
            /\ main.attempts[stage] = 2
            /\ RunOver => main.started = Stages

-----------------------------------------------------------------------------
(* Claims about the stores that processing the stages can leave, checked
   under Spec *)

\* run_clustering(conn, stage) as a function of the store: the stores it can
\* leave, one for each order the rows may come back in and each answer of the
\* fitter
RunClusteringOutcomes(store, stage) ==
    LET config   == STAGES[stage]
        eligible == DropNa(store, SelectFlagged(store, stage), config.feats)
    IN  UNION { IF Len(ids) < MinRows THEN {store}
                ELSE { ExecuteMany(store, config.col, Zip(labels, ids)) :
                         labels \in KMeans(Preprocess(store, ids, config.feats), config.k) } :
                ids \in RowOrders(eligible) }

\* for stage in order: run_clustering(conn, stage) -- the stores the loop can end with
RECURSIVE ProcessAll(_, _)
ProcessAll(store, order) ==
    IF order = <<>> THEN {store}
    ELSE UNION { ProcessAll(next, Tail(order)) : next \in RunClusteringOutcomes(store, Head(order)) }

\* the orders in which the four stages can be processed
StageOrders ==
    { o \in [1..Len(StageNames) -> Stages] : \A i, j \in 1..Len(StageNames) : i # j => o[i] # o[j] }

\* C17: Tiers are independent: whatever the order in which the Tiers are
\* processed, processing all of them leaves the same final store.
C17_FinalStoreSameForEveryOrder ==
    \A o1, o2 \in StageOrders :
        \A a \in ProcessAll(planets, o1), b \in ProcessAll(planets, o2) : a = b

\* the entities of a Tier's population: flagged for the stage, every required
\* feature present
Eligible(store, stage) ==
    {id \in DOMAIN store :
        /\ store[id][STAGES[stage].db_flag]
        /\ \A f \in Range(STAGES[stage].feats) : store[id][f] # NULL}

\* the values an attribute is changed to
AlteredValues == {NULL, 2}

\* `store` with one attribute of one entity changed
Altered(store, id, f, v) == [store EXCEPT ![id][f] = v]

\* the cluster values a run of the stage can give the entities of its population
Assignments(store, stage) ==
    { [id \in Eligible(store, stage) |-> next[id][STAGES[stage].col]] :
        next \in RunClusteringOutcomes(store, stage) }

\* C18: what a Tier's run gives its eligible entities does not depend on the
\* ineligible ones: with an attribute of an ineligible entity changed (the
\* entity staying ineligible), the rows fetched, the normalized matrix handed
\* to the fitter (for each order the rows can come in) and the assignments
\* the run can persist are the same.
C18_IneligibleDoNotInfluence ==
    \A stage \in Stages :
        LET feats    == STAGES[stage].feats
            eligible == Eligible(planets, stage)
            matrix   == [ids \in RowOrders(eligible) |-> Preprocess(planets, ids, feats)]
            assigned == Assignments(planets, stage)
        IN  \A id \in DOMAIN planets \ eligible, f \in AllFeats, v \in AlteredValues :
                LET alt == Altered(planets, id, f, v)
                IN  Eligible(alt, stage) = eligible =>
                        /\ DropNa(alt, SelectFlagged(alt, stage), feats) = eligible
                        /\ Cardinality(eligible) >= MinRows =>
                               \A ids \in RowOrders(eligible) :
                                   Preprocess(alt, ids, feats) = matrix[ids]
                        /\ Assignments(alt, stage) = assigned

\* a stage has just been fitted on a store in which an entity flagged for the
\* stage is outside its population for want of a feature, and has another
\* feature that can be changed
C18_Witness ==
    /\ last_run.stage \in Stages
    /\ Range(last_run.ids) = Eligible(planets, last_run.stage)
    /\ \E id \in DOMAIN planets \ Eligible(planets, last_run.stage) :
           /\ planets[id][STAGES[last_run.stage].db_flag]
           /\ planets[id].pl_orbper # NULL

-----------------------------------------------------------------------------
(* Claims about what a clustering run and an import leave alone, checked
   under Spec *)

\* the columns of planets that hold cluster values
ClusterColumns == ClusterCols \cup {"cluster_id"}

\* C19: a clustering run changes nothing except its Tier's cluster column:
\* every other column of planets, the star rows, the discovery rows and the
\* row counts stay as they were.  Any other step (an import) changes no
\* cluster column of a row that exists and leaves those of a new row NULL.
C19_OnlyTheTierColumnChanges ==
    [][ /\ last_run' # last_run =>
              /\ stars' = stars
              /\ discoveries' = discoveries
              /\ DOMAIN planets' = DOMAIN planets
              /\ \A id \in DOMAIN planets :
                     \A f \in DOMAIN planets[id] \ {STAGES[last_run'.stage].col} :
                         planets'[id][f] = planets[id][f]
        /\ last_run' = last_run =>
              /\ DOMAIN planets \subseteq DOMAIN planets'
              /\ \A id \in DOMAIN planets :
                     \A c \in ClusterColumns : planets'[id][c] = planets[id][c]
              /\ \A id \in DOMAIN planets' \ DOMAIN planets :
                     \A c \in ClusterColumns : planets'[id][c] = NULL ]_vars

\* an import has rewritten the attributes of a planet that a run had
\* clustered, and has added a planet: the first keeps its cluster value, the
\* new one has none
C19_Witness ==
    /\ planets[1].pl_rade = NULL
    /\ planets[1].cluster_s1 # NULL
    /\ NumPlanets + 1 \in DOMAIN planets
    /\ \A c \in ClusterColumns : planets[NumPlanets + 1][c] = NULL

-----------------------------------------------------------------------------
(* 04_database_import.py on a new store, with a store that may refuse any one
   star row and any one planet row of a run *)

\* the number of CSV rows of the imports below
ImportRows == 4

\* the first ImportRows planets of the cleaned CSV
CsvHead == SubSeq(Csv(SmallPlanet), 1, ImportRows)

\* the rows the store may refuse during one import: at most one star row and
\* at most one planet row
AnyRejections ==
    { [stars |-> s, planets |-> p, discoveries |-> {}] :
        s \in {{}} \cup {{HostOf(i)} : i \in 1..ImportRows},
        p \in {{}} \cup {{i} : i \in 1..ImportRows} }

\* the tables as run_schema.py leaves them: empty
InitImport ==
    /\ planets = <<>>
    /\ stars = <<>>
    /\ discoveries = <<>>
    /\ last_run = NoRun
    /\ stage_stats = NoStats
    /\ scatter = NoScatter
    /\ main = NoMain
    /\ tap = NoTap /\ export = NoExport

ImportAny ==
    /\ \E bad \in AnyRejections : main_import(CsvHead, bad)
    /\ UNCHANGED <<last_run, stage_stats, scatter, main, tap, export>>

NextImport == ImportAny

SpecImport == InitImport /\ [][NextImport]_vars

-----------------------------------------------------------------------------
(* Claims about the import, checked under SpecImport *)

\* the host names that have a row in stars
StoredHosts == {stars[id].hostname : id \in DOMAIN stars}

\* C20: after any import every planet row references exactly one star row
\* that exists, the row of the planet's host; a planet whose host has no star
\* row is not in the store.
C20_PlanetsReferenceTheirStar ==
    \A id \in DOMAIN planets :
        /\ planets[id].star_id \in DOMAIN stars
        /\ stars[planets[id].star_id].hostname = HostOf(planets[id].pl_name)
        /\ \A other \in DOMAIN stars :
               stars[other].hostname = HostOf(planets[id].pl_name) => other = planets[id].star_id

\* an import has left a host of the CSV without a star row while storing the
\* planets of another host: the planets of the missing host are not stored
C20_Witness ==
    /\ \E i \in 1..ImportRows :
           /\ HostOf(i) \notin StoredHosts
           /\ \A id \in DOMAIN planets : planets[id].pl_name # i
    /\ planets # <<>>

\* the three tables of an import's outcome
TablesOf(out) == <<out.stars, out.planets, out.discoveries>>

\* C21: importing is an upsert by natural key: after any sequence of imports
\* there is at most one star per hostname and one planet per pl_name, and an
\* import of the same dataset (the store refusing the same rows) after the
\* first leaves the three tables as the first left them.
C21_UpsertByNaturalKey ==
    /\ \A a, b \in DOMAIN stars : stars[a].hostname = stars[b].hostname => a = b
    /\ \A a, b \in DOMAIN planets : planets[a].pl_name = planets[b].pl_name => a = b
    /\ \A bad \in AnyRejections :
           LET once  == ImportOutcome(stars, planets, discoveries, CsvHead, bad)
               twice == ImportOutcome(once.stars, once.planets, once.discoveries, CsvHead, bad)
           IN  TablesOf(twice) = TablesOf(once)

\* the store holds every planet of the CSV with its star and its discovery
\* row: the next import of the CSV meets a conflict on every row
C21_Witness ==
    /\ \A i \in 1..ImportRows :
           /\ \E id \in DOMAIN planets : planets[id].pl_name = i /\ id \in DOMAIN discoveries
           /\ HostOf(i) \in StoredHosts

-----------------------------------------------------------------------------
(* Claims about what a run persists, checked under Spec *)

\* C22: persisted assignments are order-correspondent: a run writes to the
\* stage's column of the entity of each fetched row i the label the fitter
\* returned for row i; every eligible entity is one row, so it gets exactly
\* one write, and the column of every other entity is left as it was.
C22_OrderCorrespondent ==
    [][last_run' # last_run =>
          LET stage  == last_run'.stage
              ids    == last_run'.ids
              labels == last_run'.labels
              col    == STAGES[stage].col
          IN  /\ Len(labels) = Len(ids)
              /\ \A i, j \in 1..Len(ids) : ids[i] = ids[j] => i = j
              /\ Range(ids) = Eligible(planets, stage)
              /\ \A i \in 1..Len(ids) : planets'[ids[i]][col] = labels[i]
              /\ \A id \in DOMAIN planets \ Range(ids) : planets'[id][col] = planets[id][col]]_vars

\* a run fetched its rows in descending id order, the fitter told the rows
\* apart, and each entity holds the label of its own row
C22_Witness ==
    /\ last_run.stage # ""
    /\ last_run.ids[1] > last_run.ids[2]
    /\ last_run.labels[1] # last_run.labels[2]
    /\ planets[last_run.ids[1]][LastCol] = last_run.labels[1]
    /\ planets[last_run.ids[2]][LastCol] = last_run.labels[2]

-----------------------------------------------------------------------------
\* 01_data_collection.py: query_nasa_tap(query, output_format, max_retries)

\* largest max_retries a call is made with (main uses the default, 3)
MaxRetries == 5

\* the default of the max_retries parameter
DefaultRetries == 3

\* the kinds of failure the loop catches: requests.exceptions.Timeout and any
\* other requests.exceptions.RequestException (raise_for_status included)
RequestErrors == {"Timeout", "RequestException"}

\* a variant that goes on to the next attempt without waiting
SleepSkipped(slept, attempt) == slept

\* wait_time = 2 ** attempt; time.sleep(wait_time)
Sleep(slept, attempt) == Append(slept, 2 ^ attempt)

\* the call: for attempt in range(max_retries) starts at attempt 0
TapCalled(max_retries) ==
    [pc |-> "loop", max_retries |-> max_retries, attempt |-> 0, requests |-> 0,
     failed |-> <<>>, slept |-> <<>>, result |-> "none"]

\* requests.get succeeds and raise_for_status passes: return response
tap_request_ok ==
    /\ tap.pc = "loop"
    /\ tap.attempt < tap.max_retries
    /\ tap' = [tap EXCEPT !.pc = "returned", !.requests = @ + 1, !.result = "response"]
    /\ UNCHANGED <<planets, stars, discoveries, last_run, stage_stats, scatter, main, export>>

\* the request fails with a caught error: sleep and go on when attempts are
\* left, raise Exception("Max retries exceeded: ...") at the last attempt
tap_request_error ==
    /\ tap.pc = "loop"
    /\ tap.attempt < tap.max_retries
    /\ \E error \in RequestErrors :
         IF tap.attempt < tap.max_retries - 1
         THEN tap' = [tap EXCEPT !.requests = @ + 1,
                                 !.failed = Append(@, error),
                                 !.slept = Sleep(@, tap.attempt),
                                 !.attempt = @ + 1]
         ELSE tap' = [tap EXCEPT !.pc = "raised", !.requests = @ + 1,
                                 !.failed = Append(@, error),
                                 !.result = "Max retries exceeded"]
    /\ UNCHANGED <<planets, stars, discoveries, last_run, stage_stats, scatter, main, export>>

\* range(max_retries) is exhausted without a return or a raise: the function
\* body ends and the call returns None
tap_loop_exhausted ==
    /\ tap.pc = "loop"
    /\ tap.attempt >= tap.max_retries
    /\ tap' = [tap EXCEPT !.pc = "returned", !.result = "None"]
    /\ UNCHANGED <<planets, stars, discoveries, last_run, stage_stats, scatter, main, export>>

InitTap ==
    /\ planets = <<>>
    /\ stars = <<>>
    /\ discoveries = <<>>
    /\ last_run = NoRun
    /\ stage_stats = NoStats
    /\ scatter = NoScatter
    /\ main = NoMain
    /\ \E max_retries \in 0..MaxRetries : tap = TapCalled(max_retries)
    /\ export = NoExport

NextTap == tap_request_ok \/ tap_request_error \/ tap_loop_exhausted

SpecTap == InitTap /\ [][NextTap]_vars

\* the waits after the first n failed attempts: 2^0, 2^1, ..
Backoff(n) == [i \in 1..n |-> 2 ^ (i - 1)]

\* C23: query_nasa_tap makes at most max_retries requests, returns the
\* response of the first successful attempt without a further request, has
\* waited 2^attempt seconds after each failed attempt but the last, raises
\* when every attempt failed, and never returns without a response.
C23_RetriesThenResponseOrRaise ==
    /\ tap.requests <= tap.max_retries
    /\ tap.pc = "returned" => /\ tap.result = "response"
                              /\ tap.requests = Len(tap.failed) + 1
                              /\ tap.slept = Backoff(Len(tap.failed))
    /\ tap.pc = "raised" => /\ Len(tap.failed) = tap.max_retries
                            /\ tap.slept = Backoff(tap.max_retries - 1)
    /\ tap.pc = "loop" => tap.slept = Backoff(Len(tap.failed))

\* the same statement for calls that are given at least one attempt
C23_WithAtLeastOneAttempt == tap.max_retries >= 1 => C23_RetriesThenResponseOrRaise

\* a call with the default max_retries that succeeded at its last attempt
C23_Witness ==
    /\ tap.max_retries = DefaultRetries
    /\ tap.pc = "returned"
    /\ Len(tap.failed) = DefaultRetries - 1

\* C25: after import_stars and import_planets return, every key of the id map
\* returned names a row that is committed in the store, and the count of
\* imported rows reported equals the number of rows the call committed, also
\* when a row's insert failed and the batch was rolled back partway.
C25_MapAndCountAreOfCommittedRows ==
    \A bad \in AnyRejections :
        LET out == ImportOutcome(stars, planets, discoveries, CsvHead, bad)
        IN  /\ \A h \in DOMAIN out.star_id_map :
                   /\ out.star_id_map[h] \in DOMAIN out.stars
                   /\ out.stars[out.star_id_map[h]].hostname = h
            /\ \A p \in DOMAIN out.planet_id_map :
                   /\ out.planet_id_map[p] \in DOMAIN out.planets
                   /\ out.planets[out.planet_id_map[p]].pl_name = p
            /\ stars = <<>> => out.stars_imported = Cardinality(DOMAIN out.stars)
            /\ planets = <<>> => out.planets_imported = Cardinality(DOMAIN out.planets)

\* the same statement for the runs in which the store refuses no row
C25_WhenNoRowIsRefused ==
    LET out == ImportOutcome(stars, planets, discoveries, CsvHead,
                             [stars |-> {}, planets |-> {}, discoveries |-> {}])
    IN  /\ \A h \in DOMAIN out.star_id_map :
               /\ out.star_id_map[h] \in DOMAIN out.stars
               /\ out.stars[out.star_id_map[h]].hostname = h
        /\ \A p \in DOMAIN out.planet_id_map :
               /\ out.planet_id_map[p] \in DOMAIN out.planets
               /\ out.planets[out.planet_id_map[p]].pl_name = p
        /\ stars = <<>> => out.stars_imported = Cardinality(DOMAIN out.stars)
        /\ planets = <<>> => out.planets_imported = Cardinality(DOMAIN out.planets)

\* the planet attributes the import writes
PlanetAttributes == {"pl_masse", "pl_rade", "pl_orbper", "pl_eqt", "density"}

\* CsvHead with attribute f of planet i missing
CsvHeadWithout(i, f) == [CsvHead EXCEPT ![i][f] = NULL]

\* in `out`, the result of importing df, every planet that the import reports
\* as imported holds NULL in exactly the attributes that df leaves out
StoredNullIffMissing(out, df) ==
    \A i \in DOMAIN df :
        df[i].pl_name \in DOMAIN out.planet_id_map =>
            \A id \in Conflict(out.planets, "pl_name", df[i].pl_name), g \in PlanetAttributes :
                (out.planets[id][g] = NULL) <=> (df[i][g] = NULL)

\* C24: a missing attribute of the input is stored as NULL and never as a
\* number: for every planet imported and each of mass, radius, period,
\* temperature and density the stored value is NULL iff the input value is
\* missing, and importing again a planet whose attribute has become missing
\* overwrites the number stored before with NULL.
C24_MissingIsStoredAsNull ==
    \A i \in 1..ImportRows, f \in PlanetAttributes, bad \in AnyRejections :
        LET df == CsvHeadWithout(i, f)
        IN  StoredNullIffMissing(ImportOutcome(stars, planets, discoveries, df, bad), df)

\* the same statement for the runs in which the store refuses no row
C24_WhenNoRowIsRefused ==
    \A i \in 1..ImportRows, f \in PlanetAttributes :
        LET df == CsvHeadWithout(i, f)
        IN  StoredNullIffMissing(
                ImportOutcome(stars, planets, discoveries, df,
                              [stars |-> {}, planets |-> {}, discoveries |-> {}]), df)

-----------------------------------------------------------------------------
(* 06_execute_queries.py: the query-export driver *)

\* QUERIES, in the order of the dictionary
QUERIES ==
    << "nearest_planets", "planets_by_method", "discoveries_by_year",
       "recent_massive_planets", "most_massive_by_method", "multi_planet_systems",
       "planet_classification", "earth_like_by_method" >>

QueryNames == {QUERIES[i] : i \in DOMAIN QUERIES}

\* a variant in which nothing ends the failed transaction: the connection
\* stays in the aborted transaction
AfterFailedExecuteNoRollback(conn) == "aborted"

\* pd.read_sql_query on a DBAPI connection: when cursor.execute raises, pandas
\* calls con.rollback() and raises DatabaseError; the connection is idle again
AfterFailedExecute(conn) == "idle"

\* pd.read_sql_query(sql, conn): a statement sent in an aborted transaction is
\* refused; a statement that fails ends as above; a SELECT that succeeds
\* leaves the transaction it began open
ReadSqlQuery(conn, fails) ==
    IF conn = "aborted" THEN [df |-> "raised", conn |-> AfterFailedExecute(conn)]
    ELSE IF fails THEN [df |-> "raised", conn |-> AfterFailedExecute(conn)]
    ELSE [df |-> "DataFrame", conn |-> "in_transaction"]

\* execute_query(conn, query_name, query_info): the DataFrame, or None when
\* anything was raised
execute_query(conn, query_name, broken) ==
    LET read == ReadSqlQuery(conn, query_name \in broken)
    IN  [df |-> IF read.df = "raised" THEN "None" ELSE read.df, conn |-> read.conn]

\* export_to_csv(df, filename): the files after the call
export_to_csv(exported, df, empty, query_name) ==
    IF df = "None" \/ query_name \in empty THEN exported ELSE exported \cup {query_name}

\* main() up to the loop: the password is read and the connection opens
ExportStart(broken, empty) ==
    [pc |-> "connect", next |-> 1, conn |-> "closed", broken |-> broken, empty |-> empty,
     results |-> <<>>, exported |-> {}, summary |-> <<>>]

\* conn = psycopg2.connect(**DB_CONFIG); results = {}
export_connect ==
    /\ export.pc = "connect"
    /\ export' = [export EXCEPT !.pc = "loop", !.conn = "idle"]
    /\ UNCHANGED <<planets, stars, discoveries, last_run, stage_stats, scatter, main, tap>>

\* except psycopg2.Error: print and return
export_connect_refused ==
    /\ export.pc = "connect"
    /\ export' = [export EXCEPT !.pc = "returned"]
    /\ UNCHANGED <<planets, stars, discoveries, last_run, stage_stats, scatter, main, tap>>

\* one turn of: for query_name, query_info in QUERIES.items()
export_query ==
    /\ export.pc = "loop"
    /\ export.next <= Len(QUERIES)
    /\ LET query_name == QUERIES[export.next]
           out        == execute_query(export.conn, query_name, export.broken)
       IN  export' = [export EXCEPT
                         !.conn = out.conn,
                         !.results = [q \in DOMAIN @ \cup {query_name} |->
                                         IF q = query_name THEN out.df ELSE @[q]],
                         !.exported = export_to_csv(@, out.df, export.empty, query_name),
                         !.next = @ + 1]
    /\ UNCHANGED <<planets, stars, discoveries, last_run, stage_stats, scatter, main, tap>>

\* conn.close() after the loop
export_close ==
    /\ export.pc = "loop"
    /\ export.next > Len(QUERIES)
    /\ export' = [export EXCEPT !.pc = "summary", !.conn = "closed"]
    /\ UNCHANGED <<planets, stars, discoveries, last_run, stage_stats, scatter, main, tap>>

\* create_summary_report(results): one line per entry and the three totals
create_summary_report(results) ==
    [report     |-> [q \in DOMAIN results |-> IF results[q] # "None" THEN "Success" ELSE "Failed"],
     total      |-> Cardinality(DOMAIN results),
     successful |-> Cardinality({q \in DOMAIN results : results[q] # "None"}),
     failed     |-> Cardinality({q \in DOMAIN results : results[q] = "None"})]

export_summary ==
    /\ export.pc = "summary"
    /\ export' = [export EXCEPT !.pc = "done", !.summary = create_summary_report(export.results)]
    /\ UNCHANGED <<planets, stars, discoveries, last_run, stage_stats, scatter, main, tap>>

\* the script is started on a store in which any of the queries may fail and
\* at most one of them returns no row
InitExport ==
    /\ planets = <<>>
    /\ stars = <<>>
    /\ discoveries = <<>>
    /\ last_run = NoRun
    /\ stage_stats = NoStats
    /\ scatter = NoScatter
    /\ main = NoMain
    /\ tap = NoTap
    /\ \E broken \in SUBSET QueryNames, empty \in {{}} \cup {{q} : q \in QueryNames} :
           export = ExportStart(broken, empty)

NextExport ==
    export_connect \/ export_connect_refused \/ export_query \/ export_close \/ export_summary

SpecExport == InitExport /\ [][NextExport]_vars

\* C26: in the query-export driver every predefined query yields exactly one
\* result entry, a table or the failure marker; a query that fails does not
\* keep a later query on the same connection from being executed and from
\* succeeding; and in the summary the successful and the failed counts add up
\* to the number of queries.
C26_OneEntryPerQueryAndFailuresStayLocal ==
    /\ export.pc = "loop" =>
           /\ DOMAIN export.results = {QUERIES[i] : i \in 1..(export.next - 1)}
           /\ \A q \in DOMAIN export.results :
                  /\ export.results[q] \in {"DataFrame", "None"}
                  /\ export.results[q] = "None" <=> q \in export.broken
    /\ export.pc \in {"summary", "done"} =>
           /\ DOMAIN export.results = QueryNames
           /\ \A q \in QueryNames : export.results[q] = "None" <=> q \in export.broken
    /\ export.pc = "done" =>
           /\ export.summary.successful + export.summary.failed = Len(QUERIES)
           /\ export.summary.failed = Cardinality(export.broken)
           /\ DOMAIN export.summary.report = QueryNames

\* a finished run in which the first query failed and the second succeeded
C26_Witness ==
    /\ export.pc = "done"
    /\ export.results[QUERIES[1]] = "None"
    /\ export.results[QUERIES[2]] = "DataFrame"
    /\ export.summary.failed >= 1

\* C27: for the same store and stage, every raw cluster index gets the same
\* rank from the dashboard statistics (get_stage_stats) as from the labelled
\* scatterplot (generate_labeled_scatter), also when a planet with a
\* persisted cluster value has an unknown radius: whatever ranking the
\* scatterplot can compute on the store, it is the one the dashboard reported.
C27_SameRankInBothReports ==
    stage_stats # NoStats =>
        \A sorted \in SortValues(GroupMeans(planets, StatsCol), "pl_rade") :
            \A c \in ClusterIds(planets, StatsCol) : RankIn(sorted, c) = StatsRank(c)

\* no two clusters of the stage tie: their means differ, and at most one of
\* them has no mean
NoTie(col) ==
    \A c1, c2 \in ClusterIds(planets, col) :
        c1 # c2 => /\ HasMean(col, c1) \/ HasMean(col, c2)
                   /\ (HasMean(col, c1) /\ HasMean(col, c2))
                         => ~(MeanLeq(col, c1, c2) /\ MeanLeq(col, c2, c1))

\* the same statement for the stores in which no two clusters tie
C27_SameRankWithoutTies ==
    (stage_stats # NoStats /\ NoTie(StatsCol)) =>
        \A sorted \in SortValues(GroupMeans(planets, StatsCol), "pl_rade") :
            \A c \in ClusterIds(planets, StatsCol) : RankIn(sorted, c) = StatsRank(c)

-----------------------------------------------------------------------------
(* 09_kmeans_execution.py, and the size test of 08_kmeans_elbow_analysis.py *)

\* K_VALUES
K_VALUES == [s \in Stages |-> IF s \in {"Stage 1", "Stage 1c"} THEN 3 ELSE 4]

\* the size an elbow analysis needs: if len(df) < 10 (script 08)
ElbowMinRows == 10

\* the size an execution must exceed: if len(df) > 10 (script 09)
ExecutionAbove == 10

\* preprocess_and_plot of script 08: if len(df) < 10: print(...); return
ElbowSkips(n) == n < ElbowMinRows

\* __main__ of script 09: if len(df) > 10: run_kmeans_and_save(...) else: print(...)
ExecutionSkips(n) == ~(n > ExecutionAbove)

\* run_clustering of script 10: if len(df) < 10: return None
ClusterAnalysisSkips(n) == n < MinRows

\* get_data(conn, stage_name) of script 09: the features and the flag column
\* by the stage's name, the flagged rows without the rows that miss a feature
get_data(store, stage_name) ==
    LET features == IF stage_name \in {"Stage 1", "Stage 1c"} THEN Stage1Feats ELSE Stage2Feats
        db_col   == CASE stage_name = "Stage 1"  -> "in_stage1"
                      [] stage_name = "Stage 1c" -> "in_stage1c"
                      [] stage_name = "Stage 2"  -> "in_stage2"
                      [] OTHER                   -> "in_stage2c"
    IN  [ids   |-> DropNa(store, {id \in DOMAIN store : store[id][db_col] = TRUE}, features),
         feats |-> features]

\* a variant that saves the labels of every stage
SavesEveryStage(stage_name) == TRUE

\* if stage_name == "Stage 2c": the only stage whose labels are written
SavesToDatabase(stage_name) == stage_name = "Stage 2c"

\* the stage was skipped: only the message is printed
Skipped(stage) == [stage |-> stage, ids |-> <<>>, rows |-> <<>>, labels |-> <<>>]

\* run_kmeans_and_save(df, features, k, stage_name, conn): fit, then for
\* "Stage 2c" UPDATE planets SET cluster_id = %s WHERE planet_id = %s for
\* each row of df, and commit
run_kmeans_and_save(ids, features, k, stage_name) ==
    \E labels \in KMeans(Preprocess(planets, ids, features), k) :
        /\ (/\ last_run.stage = stage_name
            /\ last_run.ids = ids
            /\ last_run.rows = FeatureRows(planets, ids, features))
              => labels = last_run.labels
        /\ planets' = IF SavesToDatabase(stage_name)
                      THEN ExecuteMany(planets, "cluster_id", Zip(labels, ids))
                      ELSE planets
        /\ last_run' = [stage |-> stage_name, ids |-> ids,
                        rows |-> FeatureRows(planets, ids, features), labels |-> labels]

\* one turn of: for stage, k in K_VALUES.items()
kmeans_execution(stage) ==
    LET data == get_data(planets, stage)
    IN  \E ids \in RowOrders(data.ids) :
          IF ExecutionSkips(Len(ids))
          THEN planets' = planets /\ last_run' = Skipped(stage)
          ELSE run_kmeans_and_save(ids, data.feats, K_VALUES[stage], stage)

KMeansExecution ==
    /\ \E stage \in Stages : kmeans_execution(stage)
    /\ UNCHANGED <<stars, discoveries, stage_stats, scatter, main, tap, export>>

\* how many planets carry the flag of each stage when script 09 is run
ExecutionLayouts ==
    { [t \in Stages |-> CASE t = "Stage 1"  -> NumPlanets
                          [] t = "Stage 1c" -> MinRows
                          [] t = "Stage 2"  -> MinRows - 1
                          [] t = "Stage 2c" -> NumPlanets],
      [t \in Stages |-> CASE t = "Stage 1"  -> MinRows
                          [] t = "Stage 1c" -> NumPlanets
                          [] t = "Stage 2"  -> NumPlanets
                          [] t = "Stage 2c" -> MinRows] }

\* what cluster_id holds before the run: nothing, or the labels of an earlier
\* run over every planet
EarlierClusterIds == {"none", "labelled"}

EarlierClusterId(earlier, i) == IF earlier = "none" THEN NULL ELSE i % 4

\* the store after an import of the whole CSV and the stage flagging; its last
\* planet carries no flag
InitExecution ==
    \E layout \in ExecutionLayouts, earlier \in EarlierClusterIds, first \in FirstPlanetChoices :
        /\ planets = [i \in 1..(NumPlanets + 1) |->
                        [PlanetRow(Csv(first)[i], HostOf(i), FlagsOf(i, layout))
                            EXCEPT !.cluster_id = EarlierClusterId(earlier, i)]]
        /\ stars = [h \in {HostOf(i) : i \in 1..(NumPlanets + 1)} |-> [hostname |-> h, sy_dist |-> 10 * h]]
        /\ discoveries = [i \in 1..(NumPlanets + 1) |->
                            [discoverymethod |-> Csv(first)[i].discoverymethod,
                             disc_year |-> Csv(first)[i].disc_year]]
        /\ last_run = NoRun
        /\ stage_stats = NoStats
        /\ scatter = NoScatter
        /\ main = NoMain
        /\ tap = NoTap /\ export = NoExport

NextExecution == ImportData \/ KMeansExecution

SpecExecution == InitExecution /\ [][NextExecution]_vars

\* C28: the pipeline variants decide alike whether a stage is run or skipped,
\* at every size of its eligible population: the elbow analysis, the
\* execution script and the cluster-analysis script skip a stage at the same
\* sizes, and none skips a stage with at least k eligible rows.
C28_SameRunOrSkipDecision ==
    \A stage \in Stages :
        LET n == Cardinality(get_data(planets, stage).ids)
        IN  /\ ElbowSkips(n) <=> ExecutionSkips(n)
            /\ ExecutionSkips(n) <=> ClusterAnalysisSkips(n)
            /\ n >= K_VALUES[stage] =>
                   ~ElbowSkips(n) /\ ~ExecutionSkips(n) /\ ~ClusterAnalysisSkips(n)

\* the part that holds: the elbow analysis and the cluster-analysis script
\* skip a stage at the same sizes, and the execution script skips whatever
\* they skip
C28_ElbowAndAnalysisAgree ==
    \A stage \in Stages :
        LET n == Cardinality(get_data(planets, stage).ids)
        IN  /\ ElbowSkips(n) <=> ClusterAnalysisSkips(n)
            /\ ElbowSkips(n) => ExecutionSkips(n)

\* the columns of planets other than cluster_id
OtherColumns == DOMAIN PlanetRow(Csv(SmallPlanet)[1], 1, FlagsOf(1, [t \in Stages |-> 0])) \ {"cluster_id"}

\* C29: in the execution script only the run of "Stage 2c" writes to the
\* store, and it writes only the cluster_id of the planets it clustered: the
\* runs of "Stage 1", "Stage 1c" and "Stage 2" leave the store as it was, and
\* a planet outside the population clustered for "Stage 2c" keeps the
\* cluster_id it had.
C29_OnlyStage2cWritesClusterId ==
    [][last_run' # last_run =>
          /\ stars' = stars
          /\ discoveries' = discoveries
          /\ DOMAIN planets' = DOMAIN planets
          /\ \A id \in DOMAIN planets, c \in OtherColumns : planets'[id][c] = planets[id][c]
          /\ last_run'.stage # "Stage 2c" => planets' = planets
          /\ \A id \in DOMAIN planets :
                 IF id \in Range(last_run'.ids) /\ last_run'.stage = "Stage 2c"
                 THEN \E i \in 1..Len(last_run'.ids) :
                          last_run'.ids[i] = id /\ planets'[id].cluster_id = last_run'.labels[i]
                 ELSE planets'[id].cluster_id = planets[id].cluster_id]_vars

\* "Stage 2c" has been run over eleven planets whose cluster_id it wrote,
\* while the planet outside its population still holds the label of an
\* earlier run
C29_Witness ==
    /\ last_run.stage = "Stage 2c"
    /\ Len(last_run.ids) > ExecutionAbove
    /\ \A i \in 1..Len(last_run.ids) : planets[last_run.ids[i]].cluster_id = last_run.labels[i]
    /\ \E id \in DOMAIN planets :
           /\ id \notin Range(last_run.ids)
           /\ planets[id].cluster_id = EarlierClusterId("labelled", id)
           /\ planets[id].cluster_id # NULL
    /\ \E id \in Range(last_run.ids) : planets[id].cluster_id # EarlierClusterId("labelled", id)

\* a run of "Stage 1" that fitted eleven planets over a store whose
\* cluster_id column holds the labels of an earlier run
C29_WitnessOtherStage ==
    /\ last_run.stage = "Stage 1"
    /\ Len(last_run.ids) > ExecutionAbove
    /\ \A id \in DOMAIN planets : planets[id].cluster_id = EarlierClusterId("labelled", id)

\* C30: whatever number of clusters, from 1 to 4, a stage's persisted data
\* holds, every label get_label gives the ranks 1..total is a key of
\* RANK_PALETTE and different ranks get different labels, so that the
\* labelled scatterplot is never abandoned for an unknown label.
C30_EveryLabelIsInThePalette ==
    scatter.stage # "" =>
        LET total == Len(scatter.cluster_stats)
        IN  /\ total \in 1..4
            /\ \A rank \in 1..total : get_label(rank, total) \in RANK_PALETTE
            /\ \A r1, r2 \in 1..total : r1 # r2 => get_label(r1, total) # get_label(r2, total)
            /\ \A c \in DOMAIN scatter.id_to_label : scatter.id_to_label[c] \in RANK_PALETTE
            /\ scatter.saved

\* the same statement for the data that hold 1, 3 or 4 clusters
C30_ExceptForTwoClusters ==
    (scatter.stage # "" /\ Len(scatter.cluster_stats) # 2) =>
        LET total == Len(scatter.cluster_stats)
        IN  /\ total \in 1..4
            /\ \A rank \in 1..total : get_label(rank, total) \in RANK_PALETTE
            /\ \A r1, r2 \in 1..total : r1 # r2 => get_label(r1, total) # get_label(r2, total)
            /\ \A c \in DOMAIN scatter.id_to_label : scatter.id_to_label[c] \in RANK_PALETTE
            /\ scatter.saved

====
